---------------------------- MODULE Spec2Model ----------------------------
(***************************************************************************)
(* vue-easystore: the StoreFactory of src/index.js and of its second       *)
(* variant src/unnamed/part_000, on top of Vue 2.6 (client build: computed *)
(* properties are lazy, cached, and invalidated by the reactive fields     *)
(* they read).                                                             *)
(*                                                                         *)
(* JavaScript values are strings: "0", "", "null", "undefined" are falsy,  *)
(* "1" and "2" truthy numbers, "fn" a function, "w" a watch object, "obj"  *)
(* a plain object and "#i" the reference to container i.  A definition     *)
(* object maps each own key to [kind, v]: a stored value (v the value) or  *)
(* an accessor `get k() { return this.<v> }` (v the field it reads).       *)
(***************************************************************************)
EXTENDS Integers, Sequences, FiniteSets, TLC

VARIABLES
  variant,     \* which source file runs: "index" or "part"
  base,        \* constructor argument `base`: the root definition
  state,       \* constructor argument `state`: the override object
  data,        \* container id -> its reactive data object ($data)
  kind,        \* container id -> "root" | "vue" | "obs" | "none"
  computed,    \* container id -> its computed option (key -> field read)
  watch,       \* container id -> its watch option
  props,       \* properties put on the root instance by `this[name] = ...`
  modules,     \* storeFactory.modules, in own-property-key order
  compCache,   \* container id -> key -> the computed watcher of that key
  stateCache,  \* the computed watcher of the root's `state`
  nextId,      \* the next container id
  built,       \* module name -> the container add built for it last
  sinceRead,   \* names attached since the last read of .state
  last,        \* the last operation and what it returned
  nAdds,       \* single-form add calls made
  nAssigns     \* plain-field assignments made

vars == <<variant, base, state, data, kind, computed, watch, props, modules,
          compCache, stateCache, nextId, built, sinceRead, last, nAdds, nAssigns>>

MaxAdds == 2
MaxAssigns == 1
MaxBulk == 2

RootId == 0
Ids == 0..MaxAdds

EmptyMap == [k \in {} |-> "0"]

Put(map, k, v) == [j \in DOMAIN map \cup {k} |-> IF j = k THEN v ELSE map[j]]

Restrict(map, keys) == [j \in DOMAIN map \cap keys |-> map[j]]

\* JavaScript's ToBoolean on the values of the model.
Truthy(v) == v \notin {"0", "", "false", "null", "undefined"}

\* lodash isFunction.
isFunction(v) == v = "fn"

\* obj[key] of a mapping: undefined when the key is absent.
Lookup(map, k) == IF k \in DOMAIN map THEN map[k] ELSE "undefined"

RefTable == <<"#0", "#1", "#2", "#3", "#4", "#5", "#6", "#7">>

CRef(i) == RefTable[i + 1]

IsRef(v) == \E i \in Ids : CRef(i) = v

CId(v) == CHOOSE i \in Ids : CRef(i) = v

-----------------------------------------------------------------------------
(* separate *)

StoredKeys(obj) == {k \in DOMAIN obj : obj[k].kind = "stored"}

AccessorKeys(obj) == {k \in DOMAIN obj : obj[k].kind = "get"}

\* Seed with a presence check in place of the truthiness check.
SeedIfPresent(obj, st, k) == IF k \in DOMAIN st THEN st[k] ELSE obj[k].v

\* data[key] = state[key] if state[key] is truthy, else the definition's value.
Seed(obj, st, k) == IF Truthy(Lookup(st, k)) THEN st[k] ELSE obj[k].v

SeparateIndex(obj, st) ==
  LET keys == DOMAIN obj \ {"watch"}
  IN [data     |-> [k \in StoredKeys(obj) \cap keys |-> Seed(obj, st, k)],
      computed |-> [k \in AccessorKeys(obj) \cap keys |-> obj[k].v],
      watch    |-> IF "watch" \in DOMAIN obj THEN obj["watch"].v ELSE "undefined"]

SeparatePart(obj, st) ==
  [data     |-> [k \in StoredKeys(obj) |-> Seed(obj, st, k)],
   computed |-> [k \in AccessorKeys(obj) |-> obj[k].v],
   watch    |-> "undefined"]

separate(src, obj, st) ==
  IF src = "index" THEN SeparateIndex(obj, st) ELSE SeparatePart(obj, st)

-----------------------------------------------------------------------------
(* The inputs. *)

Variants == {"index", "part"}

Stored(v) == [kind |-> "stored", v |-> v]

Getter(k) == [kind |-> "get", v |-> k]

RootFull ==
  [x |-> Stored("1"), dx |-> Getter("x"), f |-> Stored("fn"), watch |-> Stored("w")]

RootFalsy == [x |-> Stored("0"), dx |-> Getter("x")]

\* Truthy overrides, also under an accessor key and under a key no definition has.
OvTruthy ==
  [root |-> [x |-> "2", dx |-> "2", q |-> "2"],
   mods |-> [m |-> [y |-> "2", dy |-> "2", q |-> "2"]]]

\* Overrides that are present and falsy.
OvFalsy ==
  [root |-> [x |-> "null"],
   mods |-> ("m" :> [y |-> "0", g |-> ""]) @@ ("1" :> [y |-> "2"])]

\* The (base, state) pairs the store is constructed with.
Constructions == { <<RootFull, OvTruthy>>, <<RootFalsy, OvFalsy>> }

Names == {"m", "1", "x", "dx", "state", "add"}

Factories == {"plain", "derived", "created", "throws"}

Throws(f) == f = "throws"

\* What module(this) returns.
FactoryDef(f) ==
  CASE f = "plain"   -> [y |-> Stored("1"), g |-> Stored("fn")]
    [] f = "derived" -> [y |-> Stored("1"), dy |-> Getter("y"), watch |-> Stored("w")]
    [] f = "created" -> [y |-> Stored("0"), created |-> Stored("fn")]
    [] OTHER         -> EmptyMap

AssignKeys == {"x", "y"}

AssignVals == {"0", "fn"}

-----------------------------------------------------------------------------
(* The store as one record, so that add can be composed (the bulk form). *)

Cur ==
  [data |-> data, kind |-> kind, computed |-> computed, watch |-> watch,
   props |-> props, modules |-> modules, compCache |-> compCache,
   stateCache |-> stateCache, nextId |-> nextId, built |-> built,
   sinceRead |-> sinceRead]

Install(S) ==
  /\ data' = S.data
  /\ kind' = S.kind
  /\ computed' = S.computed
  /\ watch' = S.watch
  /\ props' = S.props
  /\ modules' = S.modules
  /\ compCache' = S.compCache
  /\ stateCache' = S.stateCache
  /\ nextId' = S.nextId
  /\ built' = S.built
  /\ sinceRead' = S.sinceRead

(* storeFactory.modules: an ordinary object, whose own keys are listed     *)
(* integer indices first, ascending, then strings in creation order.       *)
ArrayIndex(n) ==
  CASE n = "0" -> 0 [] n = "1" -> 1 [] n = "2" -> 2 [] OTHER -> -1

KeyBefore(a, b) ==
  IF ArrayIndex(b) >= 0
    THEN ArrayIndex(a) >= 0 /\ ArrayIndex(a) < ArrayIndex(b)
    ELSE TRUE

RegNames(mods) == {mods[i].name : i \in DOMAIN mods}

RegGet(mods, n) == mods[CHOOSE i \in DOMAIN mods : mods[i].name = n].val

RegPut(mods, n, v) ==
  IF n \in RegNames(mods)
    THEN [i \in DOMAIN mods |-> IF mods[i].name = n THEN [name |-> n, val |-> v] ELSE mods[i]]
    ELSE SelectSeq(mods, LAMBDA e : KeyBefore(e.name, n))
           \o <<[name |-> n, val |-> v]>>
           \o SelectSeq(mods, LAMBDA e : ~KeyBefore(e.name, n))

-----------------------------------------------------------------------------
(* Vue's reactivity: a setter notifies the watchers that read the field.   *)

Notify(S, cid, key) ==
  [S EXCEPT
     !.stateCache.dirty = @ \/ <<cid, key>> \in S.stateCache.deps,
     !.compCache[cid] = [k \in DOMAIN @ |->
                           IF S.computed[cid][k] = key
                             THEN [@[k] EXCEPT !.dirty = TRUE]
                             ELSE @[k]]]

SetData(S, cid, key, v) ==
  IF S.data[cid][key] = v
    THEN S
    ELSE Notify([S EXCEPT !.data[cid][key] = v], cid, key)

\* Reading a computed property made from an accessor of the definition.
EvalComputed(S, cid, key) ==
  IF S.compCache[cid][key].dirty
    THEN [S EXCEPT !.compCache[cid][key] =
            [dirty |-> FALSE, val |-> S.data[cid][S.computed[cid][key]]]]
    ELSE S

filterFunctions(obj) ==
  [k \in {j \in DOMAIN obj : ~isFunction(obj[j])} |-> obj[k]]

\* module.$data || module, as the object whose entries are listed.
ModuleSource(S, v) == IF IsRef(v) THEN S.data[CId(v)] ELSE EmptyMap

\* The body of the computed property `state`: its value and the fields it read.
EvalState(S) ==
  LET names == RegNames(S.modules)
      own == filterFunctions(S.data[RootId])
  IN [val  |-> [root |-> Restrict(own, DOMAIN own \ names),
                mods |-> [n \in names |->
                            filterFunctions(ModuleSource(S, RegGet(S.modules, n)))]],
      deps |-> {<<RootId, k>> : k \in DOMAIN S.data[RootId]}
               \cup UNION {{<<CId(RegGet(S.modules, n)), k>> :
                              k \in DOMAIN ModuleSource(S, RegGet(S.modules, n))} :
                           n \in {j \in names : IsRef(RegGet(S.modules, j))}}]

\* A read of the root's .state: evaluated when dirty, the cached value otherwise.
ReadStateS(S) ==
  IF S.stateCache.dirty
    THEN LET e == EvalState(S)
         IN [S EXCEPT !.stateCache = [dirty |-> FALSE, val |-> e.val, deps |-> e.deps]]
    ELSE S

\* What a read of .state returns in S.
PeekState(S) == ReadStateS(S).stateCache.val

-----------------------------------------------------------------------------
(* this[name] on the root instance *)

RootGet(S, name) ==
  IF name \in DOMAIN S.data[RootId]
    THEN [val |-> S.data[RootId][name], S |-> S]
  ELSE IF name \in DOMAIN S.computed[RootId]
    THEN LET S1 == EvalComputed(S, RootId, name)
         IN [val |-> S1.compCache[RootId][name].val, S |-> S1]
  ELSE IF name = "state"
    THEN [val |-> "obj", S |-> ReadStateS(S)]
  ELSE IF name = "add"
    THEN [val |-> "fn", S |-> S]
  ELSE IF name \in DOMAIN S.props
    THEN [val |-> S.props[name], S |-> S]
  ELSE [val |-> "undefined", S |-> S]

RootSet(S, name, v) ==
  IF name \in DOMAIN S.data[RootId]
    THEN SetData(S, RootId, name, v)
  ELSE IF name \in DOMAIN S.computed[RootId] \/ name = "state"
    THEN S
  ELSE [S EXCEPT !.props = Put(@, name, v)]


-----------------------------------------------------------------------------
(* add(name, module), single form *)

\* state[name], the second argument of separate: absent (the default {}) or
\* a scalar (no own keys) act as no overrides.
ModOverride(st, name) ==
  IF name \in DOMAIN st.mods THEN st.mods[name] ELSE EmptyMap

\* state[name] === null is not replaced by the default {}: null[key] throws
\* at the first stored key separate looks up.
OverrideThrows(src, st, name, obj) ==
  /\ name \notin DOMAIN st.mods
  /\ Lookup(st.root, name) = "null"
  /\ StoredKeys(obj) \ (IF src = "index" THEN {"watch"} ELSE {}) # {}

\* What a caller can see of the store.
Observable(S) ==
  [data |-> S.data, kind |-> S.kind, computed |-> S.computed, props |-> S.props,
   modules |-> S.modules, peek |-> PeekState(S)]

\* Object.keys(computed).length, and in part_000 also data.created.
NeedsVue(src, sep) ==
  \/ DOMAIN sep.computed # {}
  \/ src = "part" /\ Truthy(Lookup(sep.data, "created"))

\* if (this[name]) { console.warn(...); return; }
Refuses(v) == Truthy(v)

\* One call's record: what it was given, what it did, and whether a caller
\* can tell the store after it (T) from the store before it (S).
CallRec(S, T, name, f, inv, out, c) ==
  [name |-> name, wasReg |-> name \in RegNames(S.modules),
   invoked |-> inv, outcome |-> out, cid |-> c,
   def |-> IF out \in {"ok", "lost"} THEN FactoryDef(f) ELSE EmptyMap,
   same |-> Observable(S) = Observable(T)]

\* new Vue({ data, computed, watch }) or Vue.observable(data)
Build(src, sep, S) ==
  LET cid == S.nextId
      vue == NeedsVue(src, sep)
  IN [S EXCEPT
        !.data[cid] = sep.data,
        !.kind[cid] = IF vue THEN "vue" ELSE "obs",
        !.computed[cid] = IF vue THEN sep.computed ELSE EmptyMap,
        !.watch[cid] = IF vue THEN sep.watch ELSE "undefined",
        !.compCache[cid] = IF vue
           THEN [k \in DOMAIN sep.computed |-> [dirty |-> TRUE, val |-> "undefined"]]
           ELSE EmptyMap,
        !.nextId = cid + 1]

\* storeFactory.modules[name] = this[name], r what this[name] reads.
\* "lost": this[name] did not take the container (a computed property
\* without a setter), and what it reads is registered in its place.
Register(r, name, cid) ==
  [r.S EXCEPT !.modules = RegPut(@, name, r.val),
              !.built = Put(@, name, cid),
              !.sinceRead = IF r.val = CRef(cid) THEN @ \cup {name} ELSE @]

\* F applied to the value of x.
Then(x, F(_)) == CHOOSE y \in {F(v) : v \in {x}} : TRUE

AddOne(src, st, S, name, f) ==
  Then(RootGet(S, name), LAMBDA g :
    IF Refuses(g.val)
      THEN [S |-> g.S, call |-> CallRec(S, g.S, name, f, FALSE, "refused", -1)]
    ELSE IF Throws(f) \/ OverrideThrows(src, st, name, FactoryDef(f))
      THEN [S |-> g.S, call |-> CallRec(S, g.S, name, f, TRUE, "threw", -1)]
    ELSE
      Then(Build(src, separate(src, FactoryDef(f), ModOverride(st, name)), g.S), LAMBDA S1 :
      Then(RootSet(S1, name, CRef(g.S.nextId)), LAMBDA S2 :
      Then(RootGet(S2, name), LAMBDA r :
      Then(Register(r, name, g.S.nextId), LAMBDA S3 :
        [S |-> S3,
         call |-> CallRec(S, S3, name, f, TRUE,
                          IF r.val = CRef(g.S.nextId) THEN "ok" ELSE "lost",
                          g.S.nextId)])))))

\* Object.entries(modules).forEach(([name, module]) => this.add(name, module)):
\* an exception leaves the loop.
RECURSIVE AddAll(_, _, _, _, _, _)
AddAll(src, st, S, entries, i, calls) ==
  IF i > Len(entries)
    THEN [S |-> S, calls |-> calls]
    ELSE Then(AddOne(src, st, S, entries[i].name, entries[i].factory), LAMBDA r :
           IF r.call.outcome = "threw"
             THEN [S |-> r.S, calls |-> Append(calls, r.call)]
             ELSE AddAll(src, st, r.S, entries, i + 1, Append(calls, r.call)))

Entry == [name : Names, factory : Factories]

\* The entries of a map argument come as Object.entries lists them.
EntryOrder(e) ==
  \A i, j \in DOMAIN e : i < j => e[i].name # e[j].name /\ KeyBefore(e[i].name, e[j].name)

EmptySnap == [root |-> EmptyMap, mods |-> EmptyMap]

NoLast ==
  [op |-> "new", names |-> <<>>, calls |-> <<>>, snap |-> EmptySnap,
   fresh |-> {}, cid |-> -1, key |-> "", old |-> "", val |-> ""]

-----------------------------------------------------------------------------
(* new StoreFactory(base, state) *)

Init ==
  /\ variant \in Variants
  /\ \E c \in Constructions : base = c[1] /\ state = c[2]
  /\ LET sep == separate(variant, base, state.root)
     IN /\ data = [i \in Ids |-> IF i = RootId THEN sep.data ELSE EmptyMap]
        /\ computed = [i \in Ids |-> IF i = RootId THEN sep.computed ELSE EmptyMap]
        /\ watch = [i \in Ids |-> IF i = RootId THEN sep.watch ELSE "undefined"]
        /\ compCache = [i \in Ids |->
                          IF i = RootId
                            THEN [k \in DOMAIN sep.computed |-> [dirty |-> TRUE, val |-> "undefined"]]
                            ELSE EmptyMap]
  /\ kind = [i \in Ids |-> IF i = RootId THEN "root" ELSE "none"]
  /\ props = EmptyMap
  /\ modules = <<>>
  /\ stateCache = [dirty |-> TRUE, val |-> EmptySnap, deps |-> {}]
  /\ nextId = 1
  /\ built = EmptyMap
  /\ sinceRead = {}
  /\ last = NoLast
  /\ nAdds = 0
  /\ nAssigns = 0

Config == UNCHANGED <<variant, base, state>>

AddSingle(name, f) ==
  /\ nAdds < MaxAdds
  /\ \E r \in {AddOne(variant, state, Cur, name, f)} :
        /\ Install(r.S)
        /\ last' = [NoLast EXCEPT !.op = "add",
                                  !.names = <<name>>,
                                  !.calls = <<r.call>>]
  /\ nAdds' = nAdds + 1
  /\ UNCHANGED nAssigns
  /\ Config

AddBulk(entries) ==
  /\ EntryOrder(entries)
  /\ \E r \in {AddAll(variant, state, Cur, entries, 1, <<>>)} :
        /\ Install(r.S)
        /\ last' = [NoLast EXCEPT !.op = "bulk", !.names = [i \in DOMAIN entries |-> entries[i].name],
                                  !.calls = r.calls]
        /\ nAdds' = nAdds + Len(r.calls)
  /\ UNCHANGED nAssigns
  /\ Config

\* store.state
ReadState ==
  /\ \E S \in {ReadStateS(Cur)} :
        /\ Install([S EXCEPT !.sinceRead = {}])
        /\ last' = [NoLast EXCEPT !.op = "readState", !.snap = S.stateCache.val,
                                  !.fresh = sinceRead]
  /\ UNCHANGED <<nAdds, nAssigns>>
  /\ Config

\* The containers a caller reaches: the root, and store[name].
Reachable(cid) ==
  \/ cid = RootId
  \/ \E n \in DOMAIN props : props[n] = CRef(cid)
  \/ \E n \in DOMAIN data[RootId] : data[RootId][n] = CRef(cid)

\* container.key, a derived field: the computed watcher evaluates when dirty.
\* (A read of a plain field returns data[cid][key] and changes nothing.)
ReadDerived(cid, key) ==
  /\ Reachable(cid)
  /\ key \in DOMAIN computed[cid]
  /\ Install(EvalComputed(Cur, cid, key))
  /\ UNCHANGED <<last, nAdds, nAssigns>>
  /\ Config

\* container.key = v, a plain field
Assign(cid, key, v) ==
  /\ nAssigns < MaxAssigns
  /\ Reachable(cid)
  /\ key \in DOMAIN data[cid]
  /\ Install(SetData(Cur, cid, key, v))
  /\ last' = [NoLast EXCEPT !.op = "assign", !.cid = cid, !.key = key,
                            !.old = data[cid][key], !.val = v]
  /\ nAssigns' = nAssigns + 1
  /\ UNCHANGED nAdds
  /\ Config

Next ==
  \/ \E name \in Names, f \in Factories : AddSingle(name, f)
  \/ \E n \in 1..MaxBulk :
       /\ nAdds + n <= MaxAdds
       /\ \E entries \in [1..n -> Entry] : AddBulk(entries)
  \/ ReadState
  \/ \E cid \in Ids, key \in {"dx", "dy"} : ReadDerived(cid, key)
  \/ \E cid \in Ids, key \in AssignKeys, v \in AssignVals : Assign(cid, key, v)

Spec == Init /\ [][Next]_vars

\* Construction followed by add calls alone: the operations that call separate.
NextAttach ==
  \/ \E name \in Names, f \in Factories : AddSingle(name, f)
  \/ \E n \in 1..MaxBulk :
       /\ nAdds + n <= MaxAdds
       /\ \E entries \in [1..n -> Entry] : AddBulk(entries)

SpecAttach == Init /\ [][NextAttach]_vars

-----------------------------------------------------------------------------
(* Properties *)

Calls == {last.calls[i] : i \in DOMAIN last.calls}

\* What store.state returns in this state, and what its body evaluates to.
StateNow == PeekState(Cur)

FreshState == EvalState(Cur).val

PlainView(cid) ==
  [k \in {j \in DOMAIN data[cid] : data[cid][j] # "fn"} |-> data[cid][k]]

\* C1: add(name, factory) with `name` already in the registry is a no-op:
\* the factory is not invoked, the call is refused, and the registry, the
\* containers, their fields and what .state returns are as before the call.
C1_DuplicateAddIsNoOp ==
  \A c \in Calls : c.wasReg => ~c.invoked /\ c.outcome = "refused" /\ c.same

\* C2: add(name, factory) refuses exactly when `name` is in the registry:
\* for every other name the factory is invoked and, unless it throws, the
\* container built is registered under `name`.
C2_RefusesExactlyRegistered ==
  \A c \in Calls :
    /\ c.outcome = "refused" <=> c.wasReg
    /\ ~c.wasReg => c.invoked /\ c.outcome \in {"ok", "threw"}
    /\ c.outcome = "ok" =>
         c.name \in RegNames(modules) /\ RegGet(modules, c.name) = CRef(c.cid)

\* C3: the first read of .state after a successful add(name, factory) has the
\* key `name`, mapped to that module's non-function fields.
C3_NextReadShowsModule ==
  last.op = "readState" =>
    \A n \in last.fresh :
      n \in DOMAIN last.snap.mods /\ last.snap.mods[n] = PlainView(built[n])

\* C4: a fresh evaluation of .state is the root's plain fields with a
\* non-function value plus, per registered module name, that module's plain
\* fields with a non-function value, and nothing else.
C4_StateIsAggregate ==
  FreshState =
    [root |-> Restrict(PlainView(RootId), DOMAIN data[RootId] \ RegNames(modules)),
     mods |-> [n \in RegNames(modules) |-> PlainView(built[n])]]

\* The value the override rule gives stored key k of definition obj.
SeededValue(obj, ov, k) ==
  IF k \in DOMAIN ov /\ ov[k] \notin {"0", "", "false", "null", "undefined"}
    THEN ov[k]
    ELSE obj[k].v

\* C5: every stored key k of a definition starts as overrides[k] when that is
\* truthy and as the definition's own value otherwise (also when overrides[k]
\* is present and falsy); a module's overrides are the entry under its name
\* in the override object given at construction.
C5_OverrideSeedsByTruthiness ==
  /\ nAdds = 0 /\ nAssigns = 0 =>
       \A k \in StoredKeys(base) \ {"watch"} :
         k \in DOMAIN data[RootId] /\ data[RootId][k] = SeededValue(base, state.root, k)
  /\ \A c \in Calls :
       c.outcome \in {"ok", "lost"} =>
         \A k \in StoredKeys(c.def) \ {"watch"} :
           /\ k \in DOMAIN data[c.cid]
           /\ data[c.cid][k] =
                SeededValue(c.def,
                            IF c.name \in DOMAIN state.mods THEN state.mods[c.name] ELSE EmptyMap,
                            k)

\* C5, reached: a module attached under a name whose override entry holds a
\* present but falsy value for y keeps the definition's y, and one whose
\* entry holds a truthy value takes it.
C5_Witness ==
  \E c \in Calls :
    /\ c.outcome = "ok"
    /\ c.name \in DOMAIN state.mods
    /\ "y" \in DOMAIN state.mods[c.name]
    /\ state.mods[c.name]["y"] = "0"
    /\ data[c.cid]["y"] = c.def["y"].v
    /\ data[RootId]["x"] = base["x"].v
    /\ "x" \in DOMAIN state.root

\* C6: the bulk form attaches its entries in entry order without rollback:
\* nothing after an entry that throws is attempted, the entries attached
\* before it stay registered and visible in .state, and an entry naming a
\* registered module is skipped while the remaining ones are still attempted.
C6_BulkNoRollback ==
  last.op = "bulk" =>
    /\ Len(last.calls) <= Len(last.names)
    /\ \A i \in DOMAIN last.calls :
         /\ last.calls[i].name = last.names[i]
         /\ last.calls[i].outcome = "threw" => i = Len(last.calls)
         /\ last.calls[i].wasReg => last.calls[i].outcome = "refused"
         /\ last.calls[i].outcome = "ok" =>
              /\ last.names[i] \in RegNames(modules)
              /\ last.names[i] \in DOMAIN StateNow.mods
    /\ (\A i \in DOMAIN last.calls : last.calls[i].outcome # "threw") =>
         Len(last.calls) = Len(last.names)

\* C7: `watch` is never a plain field of a container and never a key of
\* .state, at the top level or inside a module's mapping.
C7_WatchNeverData ==
  /\ \A cid \in Ids : "watch" \notin DOMAIN data[cid]
  /\ "watch" \notin DOMAIN FreshState.root
  /\ \A n \in DOMAIN FreshState.mods : "watch" \notin DOMAIN FreshState.mods[n]

\* C8: after the assignment of a new value to a plain field, the next read of the field, of
\* each derived field of the container that reads it, and of the root's
\* .state return what the new value gives, not a cached result.
C8_ReadAfterWrite ==
  last.op = "assign" /\ last.val # last.old =>
    /\ data[last.cid][last.key] = last.val
    /\ \A k \in DOMAIN computed[last.cid] :
         computed[last.cid][k] = last.key =>
           EvalComputed(Cur, last.cid, k).compCache[last.cid][k].val = last.val
    /\ StateNow = FreshState

\* C9: whatever keys the override object has, the plain fields separate
\* returns are the definition's stored keys other than `watch`, and each
\* accessor key is a derived field evaluated by the definition's accessor.
C9_OverrideOnlySeedsPlainFields ==
  /\ DOMAIN data[RootId] = StoredKeys(base) \ {"watch"}
  /\ computed[RootId] = [k \in AccessorKeys(base) |-> base[k].v]
  /\ \A c \in Calls :
       c.outcome \in {"ok", "lost"} =>
         /\ DOMAIN data[c.cid] = StoredKeys(c.def) \ {"watch"}
         /\ computed[c.cid] = [k \in AccessorKeys(c.def) |-> c.def[k].v]

\* What holds of the parts the properties above find wrong: src/index.js
\* keeps `watch` out of the plain fields, and a fresh evaluation of .state
\* (not the cached value) has every module that a call attached.
IndexKeepsWatchOut ==
  variant = "index" => C7_WatchNeverData /\ C9_OverrideOnlySeedsPlainFields

FreshStateShowsAttached ==
  \A c \in Calls :
    c.outcome = "ok" =>
      c.name \in DOMAIN FreshState.mods /\ FreshState.mods[c.name] = PlainView(c.cid)

IsPrefix(s, t) ==
  Len(s) <= Len(t) /\ \A i \in DOMAIN s : t[i] = s[i]

\* C10: the registry only grows: every step keeps each registered name, its
\* container and its place in the iteration order (new names come last), and
\* a name enters only by a successful single-form add.
C10_RegistryOnlyGrows ==
  [][/\ IsPrefix(modules, modules')
     /\ \A n \in RegNames(modules') \ RegNames(modules) :
          \E i \in DOMAIN last'.calls :
            last'.calls[i].name = n /\ last'.calls[i].outcome \in {"ok", "lost"}]_vars

=============================================================================
